---- MODULE Spec2Model ----
(***************************************************************************)
(* Feature-extraction transforms and statistics kernel of the plant        *)
(* bioelectric classifier (transform.py, learn.py; Python 2 with numpy),   *)
(* with the stimulus typing of plant.py and the datapoint file of          *)
(* process.py.                                                             *)
(*                                                                         *)
(* Numbers.  A sample point is a float.  Floats are modelled by exact      *)
(* values: a record [n, d, root] stands for                                *)
(*    root = 1, d > 0 : the rational n/d (lowest terms)                    *)
(*    root = 2, d > 0 : the square root of the rational n/d  (x ** 0.5)    *)
(*    root = 1, d = 0 : numpy's nan (n = 0), inf (n = 1), -inf (n = -1)    *)
(*    root = 0        : no value; the expression raised ZeroDivisionError  *)
(* An exception aborts the function that evaluates the expression, so the  *)
(* raised marker propagates through every arithmetic operator.             *)
(*                                                                         *)
(* Python 2: "/" on two ints is floor division, on floats true division.   *)
(* A sample is either a Python list of Python floats (type "list") or a    *)
(* numpy float array (type "ndarray"); the two differ in what a division   *)
(* by zero does and in whether a slice is a copy or a view.                *)
(***************************************************************************)
EXTENDS Integers, Sequences, FiniteSets, TLC

\* ---- bounds of the model ----
MaxLen == 4       \* longest sample of the statistics kernel
MaxVal == 2       \* its points are the floats 0.0 .. MaxVal
MaxLenM == 4      \* longest sample of the moving average
MaxValM == 1      \* its points are the floats 0.0 .. MaxValM
MaxN == 5         \* largest moving-average window n
MaxBatch == 2     \* largest batch handed to transform()
MaxLenT == 4      \* longest sample of a batch
MaxValT == 1      \* points of a batch sample are 0.0 .. MaxValT
MaxPoints == 6    \* most points in one batch, all samples together
MaxWin == 3       \* largest window count N of WindowTransform
MaxSteps == 2     \* largest steps / divs of SplitTransform and MapTransform
MaxLevel == 2     \* largest wavelet level L
MaxCalls == 2     \* transform() calls in one run
MaxRows == 2      \* most rows (time steps) of an electrode sample
MaxChannels == 3  \* most channels in a row of an electrode sample
MaxValE == 1      \* electrode readings are the floats 0.0 .. MaxValE
MaxLenS == 4      \* longest sample of the stimulus transforms
MaxValS == 1      \* its points are the floats 0.0 .. MaxValS
MaxOffset == 3    \* largest datapoint.window_offset and PostStimulus offset
MaxStim == 2      \* most raw stimuli of one recording
MaxTime == 1      \* stimulus times are 0 .. MaxTime
MaxColumns == 4   \* most columns of the raw readings
MaxDatapoints == 2  \* most datapoints saved to one file

\* Python's None where a parameter is an int or None
NoneVal == -1

Kinds == {"list", "ndarray"}

\* ---- state ----
VARIABLES
    X,       \* the batch: a sequence of samples, each a sequence of points
    xtype,   \* "list": lists of Python floats; "ndarray": numpy float arrays
    tf,      \* the transform object under construction or in use
    op,      \* the last call made
    arg,     \* its int argument, 0 when it has none
    out,     \* what the last call returned or raised
    frame,   \* the running MovingAvgTransform.extractor call
    calls,   \* transform() calls so far
    window_offset,  \* datapoint.window_offset, the module's global
    stim_types,     \* the stim_types dict as iteritems() walks it
    raw_stimuli,    \* the raw stimuli handed to format_raw / read by load_mat
    raw_data,       \* the raw readings handed to format_raw, a list of rows
    datapoints,     \* the datapoints handed to save_datapoints
    csvfile         \* the rows of the file save_datapoints wrote

\* what the transforms never touch
loader == <<window_offset, stim_types, raw_stimuli, raw_data, datapoints, csvfile>>

vars == <<X, xtype, tf, op, arg, out, frame, calls, loader>>

\* ---- arithmetic ----
Abs(a) == IF a < 0 THEN -a ELSE a

Sign(a) == IF a < 0 THEN -1 ELSE IF a = 0 THEN 0 ELSE 1

Max(a, b) == IF a > b THEN a ELSE b

Min(a, b) == IF a < b THEN a ELSE b

RECURSIVE Gcd(_, _)
Gcd(a, b) == IF b = 0 THEN a ELSE Gcd(b, a % b)

\* int / int of Python 2: floor division, also for a negative dividend
PyIntDiv(a, b) == a \div b

\* the rational n/d, d # 0, in lowest terms with a positive denominator
Q(n, d) ==
    LET g == Gcd(Abs(n), Abs(d))
        s == IF d < 0 THEN -1 ELSE 1
    IN  [n |-> (s * n) \div g, d |-> (s * d) \div g, root |-> 1]

F(m) == Q(m, 1)

\* (p1 * p2) / (q1 * q2), q1 * q2 # 0, reduced before it is multiplied out
Ratio(p1, p2, q1, q2) ==
    LET g11 == Gcd(Abs(p1), Abs(q1))
        g22 == Gcd(Abs(p2), Abs(q2))
        g12 == Gcd(Abs(p1) \div g11, Abs(q2) \div g22)
        g21 == Gcd(Abs(p2) \div g22, Abs(q1) \div g11)
    IN  Q(((p1 \div g11) \div g12) * ((p2 \div g22) \div g21),
          ((q1 \div g11) \div g21) * ((q2 \div g22) \div g12))

NaN == [n |-> 0, d |-> 0, root |-> 1]

Inf(s) == [n |-> s, d |-> 0, root |-> 1]

ZDE == [n |-> 0, d |-> 0, root |-> 0]

IsRaised(a) == a.root = 0

IsNaN(a) == a.root # 0 /\ a.d = 0 /\ a.n = 0

IsInf(a) == a.root # 0 /\ a.d = 0 /\ a.n # 0

IsFinite(a) == a.d # 0

IsZero(a) == a.d # 0 /\ a.n = 0

Add(a, b) ==
    IF IsRaised(a) \/ IsRaised(b) THEN ZDE
    ELSE IF IsNaN(a) \/ IsNaN(b) THEN NaN
    ELSE IF IsInf(a) /\ IsInf(b) THEN (IF a.n = b.n THEN a ELSE NaN)
    ELSE IF IsInf(a) THEN a
    ELSE IF IsInf(b) THEN b
    ELSE LET g == Gcd(a.d, b.d)
         IN  Q(a.n * (b.d \div g) + b.n * (a.d \div g), (a.d \div g) * b.d)

Neg(a) == IF IsRaised(a) THEN ZDE ELSE [a EXCEPT !.n = -a.n]

Sub(a, b) == Add(a, Neg(b))

Mul(a, b) ==
    IF IsRaised(a) \/ IsRaised(b) THEN ZDE
    ELSE IF IsNaN(a) \/ IsNaN(b) THEN NaN
    ELSE IF IsInf(a) \/ IsInf(b)
         THEN (IF IsZero(a) \/ IsZero(b) THEN NaN ELSE Inf(Sign(a.n) * Sign(b.n)))
    ELSE Ratio(a.n, b.n, a.d, b.d)

FAbs(a) == IF IsRaised(a) THEN ZDE ELSE [a EXCEPT !.n = Abs(a.n)]

\* the square of a finite value, as a rational
Sq(a) == IF a.root = 2 THEN Q(Abs(a.n), a.d) ELSE Ratio(a.n, a.n, a.d, a.d)

\* the largest r in lo..hi with r * r <= m, by bisection
RECURSIVE RootBetween(_, _, _)
RootBetween(m, lo, hi) ==
    IF lo >= hi THEN lo
    ELSE LET mid == (lo + hi + 1) \div 2
         IN  IF mid * mid <= m THEN RootBetween(m, mid, hi)
             ELSE RootBetween(m, lo, mid - 1)

ISqrt(m) == RootBetween(m, 0, Min(m, 46340))

IsSquare(m) == ISqrt(m) * ISqrt(m) = m

\* a ** 0.5 for a >= 0 (a variance): exact when n/d is a square, else symbolic
Pow05(a) ==
    IF IsRaised(a) THEN ZDE
    ELSE IF ~IsFinite(a) THEN a
    ELSE IF IsSquare(a.n) /\ IsSquare(a.d) THEN Q(ISqrt(a.n), ISqrt(a.d))
    ELSE [n |-> a.n, d |-> a.d, root |-> 2]

\* a / b on floats.  A zero divisor raises ZeroDivisionError for Python
\* floats; numpy.float64 returns nan or inf (with a warning only).
\* Operands with root = 2 are non-negative square roots.
Div(k, a, b) ==
    IF IsRaised(a) \/ IsRaised(b) THEN ZDE
    ELSE IF IsZero(b)
         THEN (IF k = "list" THEN ZDE
               ELSE IF IsZero(a) \/ IsNaN(a) THEN NaN
               ELSE Inf(Sign(a.n)))
    ELSE IF IsNaN(a) \/ IsNaN(b) THEN NaN
    ELSE IF IsInf(a) THEN (IF IsInf(b) THEN NaN ELSE Inf(Sign(a.n) * Sign(b.n)))
    ELSE IF IsInf(b) THEN F(0)
    ELSE IF a.root = 1 /\ b.root = 1 THEN Ratio(a.n, b.d, a.d, b.n)
    ELSE Pow05(Ratio(Sq(a).n, Sq(b).d, Sq(a).d, Sq(b).n))

\* a ** e for an int e >= 1
RECURSIVE Pow(_, _)
Pow(a, e) == IF e <= 1 THEN a ELSE Mul(a, Pow(a, e - 1))

\* ---- Python sequences (0-based indices a, b; Len(x) = len(x)) ----

\* the index a of a slice bound, clamped as Python clamps it
SliceIndex(len, a) == IF a < 0 THEN Max(a + len, 0) ELSE Min(a, len)

\* x[a:b]
PySlice(x, a, b) ==
    LET lo == SliceIndex(Len(x), a)
        hi == SliceIndex(Len(x), b)
    IN  IF lo < hi THEN SubSeq(x, lo + 1, hi) ELSE <<>>

\* x[a:]
PySliceFrom(x, a) == PySlice(x, a, Len(x))

\* range(0, stop, step) for step >= 1
PyRange(stop, step) ==
    LET cnt == IF stop <= 0 THEN 0 ELSE (stop + step - 1) \div step
    IN  [j \in 1..cnt |-> (j - 1) * step]

RECURSIVE Concat(_)
Concat(ss) == IF ss = <<>> THEN <<>> ELSE Head(ss) \o Concat(Tail(ss))

\* the builtin sum(): starts from the int 0
RECURSIVE Sum(_)
Sum(s) == IF s = <<>> THEN F(0) ELSE Add(Sum(SubSeq(s, 1, Len(s) - 1)), s[Len(s)])

AnyRaised(s) == \E j \in 1..Len(s) : IsRaised(s[j])

\* ---- results of a call: a value, or the exception it raised ----
Ok(v) == [err |-> "", val |-> v]

Raise(e) == [err |-> e, val |-> <<>>]

\* a function whose arithmetic raised ends in ZeroDivisionError
OfNum(v) == IF IsRaised(v) THEN Raise("ZeroDivisionError") ELSE Ok(v)

OfSeq(s) == IF AnyRaised(s) THEN Raise("ZeroDivisionError") ELSE Ok(s)

\* ---- statistics kernel (transform.py) ----
differential(x) == [j \in 1..(Len(x) - 1) |-> Sub(x[j + 1], x[j])]

\* sum(x) / len(x); for an empty x this is the int division 0 / 0
mean(k, x) == IF Len(x) = 0 THEN ZDE ELSE Div(k, Sum(x), F(Len(x)))

\* sum([(xx-m)**n for xx in x]) / len(x)
MomentAbout(k, x, n, m) ==
    IF IsRaised(m) THEN ZDE
    ELSE Div(k, Sum([j \in 1..Len(x) |-> Pow(Sub(x[j], m), n)]), F(Len(x)))

moment(k, x, n) == MomentAbout(k, x, n, mean(k, x))

var(k, x) == moment(k, x, 2)

stdev(k, x) == Pow05(var(k, x))

\* the exponent 3/2 is an int division: var(x) ** 1
skewness(k, x) ==
    Div(k, moment(k, x, 3), Pow(var(k, x), PyIntDiv(3, 2)))

kurtosis(k, x) ==
    Sub(Div(k, moment(k, x, 4), Pow(var(k, x), 2)), F(3))

MapAbs(s) == [j \in 1..Len(s) |-> FAbs(s[j])]

\* the returned list, from the values computed before the Hjorth parameters
EnsembleFeatures(k, avg, diff1, diff2, vari, vardiff1, vardiff2, skew, kurt) ==
    LET hjorth_mob == Div(k, Pow05(vardiff1), Pow05(vari))
        hjorth_com == Div(k, Div(k, Pow05(vardiff2), Pow05(vardiff1)), hjorth_mob)
    IN  <<avg, diff1, diff2, vari, vardiff1, vardiff2,
          hjorth_mob, hjorth_com, skew, kurt>>

\* FeatureEnsembleTransform.extractor
FeatureEnsembleExtractor(k, x) ==
    OfSeq(EnsembleFeatures(k,
        mean(k, x),
        mean(k, MapAbs(differential(x))),
        mean(k, MapAbs(differential(differential(x)))),
        var(k, x),
        var(k, differential(x)),
        var(k, differential(differential(x))),
        skewness(k, x),
        kurtosis(k, x)))

\* ---- MovingAvgTransform (transform.py): the loop, one iteration a step ----

\* mov_avg = []; accum = sum(x[:self.n])
MovAvgBegin(x, n) ==
    [pc |-> "loop", x |-> x, n |-> n, i |-> 0,
     accum |-> Sum(PySlice(x, 0, n)), mov_avg |-> <<>>]

\* one pass of "for i, xx in enumerate(x)", or the loop's exit
MovAvgStep(k, fr) ==
    IF fr.i >= Len(fr.x) THEN [fr EXCEPT !.pc = "done"]
    ELSE LET avg == Div(k, fr.accum, F(fr.n))
             emitted == [fr EXCEPT !.mov_avg = Append(fr.mov_avg, avg)]
         IN  IF fr.i + fr.n >= Len(fr.x)
             THEN [emitted EXCEPT !.pc = "done"]    \* IndexError: break
             ELSE [emitted EXCEPT
                      !.accum = Sub(Add(fr.accum, fr.x[fr.i + fr.n + 1]), fr.x[fr.i + 1]),
                      !.i = fr.i + 1]

RECURSIVE MovAvgRun(_, _)
MovAvgRun(k, fr) ==
    IF fr.pc = "done" THEN fr.mov_avg ELSE MovAvgRun(k, MovAvgStep(k, fr))

\* MovingAvgTransform.extractor, run to its return
MovingAvgExtractor(k, x, n) == MovAvgRun(k, MovAvgBegin(x, n))

\* ---- NoiseTransform ----

\* x[self.n/2:-self.n/2] in C-like arithmetic, where -n/2 rounds toward zero
NoiseTrimTruncating(x, n) == PySlice(x, PyIntDiv(n, 2), -PyIntDiv(n, 2))

\* x[self.n/2:-self.n/2]: both bounds are floor divisions, of n and of -n
NoiseTrim(x, n) == PySlice(x, PyIntDiv(n, 2), PyIntDiv(-n, 2))

\* [xx - ss for xx, ss in zip(xs, smoothed)]; zip stops at the shorter
ZipSub(xs, smoothed) ==
    [j \in 1..Min(Len(xs), Len(smoothed)) |-> Sub(xs[j], smoothed[j])]

NoiseExtractor(k, x, n) == ZipSub(NoiseTrim(x, n), MovingAvgExtractor(k, x, n))

\* ---- MeanSubtractTransform ----
SubtractAll(x, m) ==
    OfSeq(IF IsRaised(m) THEN <<ZDE>> ELSE [j \in 1..Len(x) |-> Sub(x[j], m)])

MeanSubtractExtractor(k, x) == SubtractAll(x, mean(k, x))

\* ---- inner functions f of WindowTransform and MapTransform ----
Funcs == {"identity", "mean_subtract", "ensemble"}

ApplyF(f, k, w) ==
    CASE f = "ensemble" -> FeatureEnsembleExtractor(k, w)
      [] f = "mean_subtract" -> MeanSubtractExtractor(k, w)
      [] OTHER -> Ok(w)

\* ---- WindowTransform ----

\* numpy.hanning(M)[k] = 0.5 - 0.5 cos(2 pi k / (M - 1)), the lengths whose
\* values are rational
Hanning(M) ==
    CASE M = 0 -> <<>>
      [] M = 1 -> <<F(1)>>
      [] M = 2 -> <<F(0), F(0)>>
      [] M = 3 -> <<F(0), F(1), F(0)>>
      [] M = 4 -> <<F(0), Q(3, 4), Q(3, 4), F(0)>>
      [] M = 5 -> <<F(0), Q(1, 2), F(1), Q(1, 2), F(0)>>
      [] M = 7 -> <<F(0), Q(1, 4), Q(3, 4), F(1), Q(3, 4), Q(1, 4), F(0)>>

WindowSize(len, N) == PyIntDiv(2 * len, N + 1)

WindowStep(len, N) == PyIntDiv(WindowSize(len, N), 2)

\* range(0, len(x)-window_size+1, step), step >= 1
WindowStarts(len, N) ==
    PyRange(len - WindowSize(len, N) + 1, WindowStep(len, N))

\* x with the points s .. s+Len(w)-1 (0-based) overwritten by w
Overwrite(x, s, w) ==
    [j \in 1..Len(x) |-> IF j > s /\ j <= s + Len(w) THEN w[j - s] ELSE x[j]]

\* window *= np.hanning(len(window)), when hanning is set
Taper(t, window) ==
    IF t.hanning
    THEN [j \in 1..Len(window) |-> Mul(window[j], Hanning(Len(window))[j])]
    ELSE window

\* The loop over the windows.  "window = x[i:i+window_size]" is a view of an
\* ndarray and a copy of a list.  "window *= hanning" multiplies an ndarray
\* view in place, in x's memory; for a list it rebinds window to a new
\* ndarray.  A result of f that is the view itself is read when the windows
\* are concatenated, after the whole loop.
RECURSIVE WindowLoop(_, _, _, _, _, _)

\* windows.append(r), r = self.f(window), or the exception f raised
WindowAppend(t, k, x1, ws, starts, parts, r) ==
    IF r.err # "" THEN [err |-> r.err, parts |-> <<>>, x |-> x1]
    ELSE WindowLoop(t, k, x1, ws, Tail(starts),
            Append(parts, [view |-> (t.f = "identity" /\ k = "ndarray"),
                           s |-> Head(starts), val |-> r.val]))

\* one pass of the loop, given the window after the taper
WindowPass(t, k, x, ws, starts, parts, tapered) ==
    WindowAppend(t, k,
        IF t.hanning /\ k = "ndarray" THEN Overwrite(x, Head(starts), tapered) ELSE x,
        ws, starts, parts,
        ApplyF(t.f, IF t.hanning THEN "ndarray" ELSE k, tapered))

WindowLoop(t, k, x, ws, starts, parts) ==
    IF starts = <<>> THEN [err |-> "", parts |-> parts, x |-> x]
    ELSE WindowPass(t, k, x, ws, starts, parts,
            Taper(t, SubSeq(x, Head(starts) + 1, Head(starts) + ws)))

\* np.concatenate(windows), after a loop that ended as run
WindowResult(run, ws) ==
    LET windows == [j \in 1..Len(run.parts) |->
                       IF run.parts[j].view
                       THEN SubSeq(run.x, run.parts[j].s + 1, run.parts[j].s + ws)
                       ELSE run.parts[j].val]
    IN  IF run.err # "" THEN [res |-> Raise(run.err), x |-> run.x]
        ELSE IF Len(run.parts) = 0 THEN [res |-> Raise("ValueError"), x |-> run.x]
        ELSE [res |-> Ok(Concat(windows)), x |-> run.x]

\* WindowTransform.extractor: the result and the sample as the call leaves it
WindowExtractor(t, k, x) ==
    IF WindowStep(Len(x), t.N) = 0
    THEN [res |-> Raise("ValueError"), x |-> x]   \* range() step 0
    ELSE WindowResult(
            WindowLoop(t, k, x, WindowSize(Len(x), t.N), WindowStarts(Len(x), t.N), <<>>),
            WindowSize(Len(x), t.N))

\* ---- SplitTransform and MapTransform ----

\* steps = self.steps or len(x) / self.divs
\* None and 0 are both false; len(x) / None is a TypeError
StepsOf(t, x) ==
    IF t.steps # NoneVal /\ t.steps # 0 THEN Ok(t.steps)
    ELSE IF t.divs = NoneVal THEN Raise("TypeError")
    ELSE IF t.divs = 0 THEN Raise("ZeroDivisionError")
    ELSE Ok(PyIntDiv(Len(x), t.divs))

\* [x[i:i+steps] for i in range(0, len(x), steps)], steps >= 1
Chunks(x, steps) ==
    LET starts == PyRange(Len(x), steps)
    IN  [j \in 1..Len(starts) |-> PySlice(x, starts[j], starts[j] + steps)]

SameLen(ss) == \A j \in 1..Len(ss) : Len(ss[j]) = Len(ss[1])

\* numpy.array(rows).T for rows of one length
Transpose(rows) ==
    IF Len(rows) = 0 THEN <<>>
    ELSE [c \in 1..Len(rows[1]) |-> [r \in 1..Len(rows) |-> rows[r][c]]]

\* numpy.array(parts).T; rows of unequal length make a 1-D array of lists,
\* whose transpose is itself
SplitParts(parts) == Ok(IF SameLen(parts) THEN Transpose(parts) ELSE parts)

SplitWithSteps(x, st) ==
    IF st.err # "" THEN st
    ELSE IF st.val = 0 THEN Raise("ValueError")    \* range() step 0
    ELSE SplitParts(Chunks(x, st.val))

\* SplitTransform.extractor
SplitExtractor(t, x) == SplitWithSteps(x, StepsOf(t, x))

MapCons(r, rest) ==
    IF r.err # "" THEN r
    ELSE IF rest.err # "" THEN rest
    ELSE Ok(<<r.val>> \o rest.val)

\* [self.f(part) for part in parts]
RECURSIVE MapF(_, _, _)
MapF(f, k, parts) ==
    IF parts = <<>> THEN Ok(<<>>)
    ELSE MapCons(ApplyF(f, k, Head(parts)), MapF(f, k, Tail(parts)))

\* numpy.ravel flattens results of one length
MapRavel(rs) ==
    IF rs.err # "" THEN rs
    ELSE Ok(IF SameLen(rs.val) THEN Concat(rs.val) ELSE rs.val)

MapWithSteps(t, k, x, st) ==
    IF st.err # "" THEN st
    ELSE IF st.val = 0 THEN Raise("ValueError")    \* range() step 0
    ELSE MapRavel(MapF(t.f, k, Chunks(x, st.val)))

\* MapTransform.extractor
MapExtractor(t, k, x) == MapWithSteps(t, k, x, StepsOf(t, x))

\* ---- DiscreteWaveletTransform ----

\* length of a band after one more dwt step of the haar filter (dec_len 2)
DwtLen(len) == PyIntDiv(len + 1, 2)

RECURSIVE BandLen(_, _)
BandLen(len, level) == IF level = 0 THEN len ELSE BandLen(DwtLen(len), level - 1)

\* the coefficients of one band, each named by band, level and position
Band(name, level, len) ==
    [c \in 1..BandLen(len, level) |-> [band |-> name, level |-> level, c |-> c]]

\* pywt.wavedec(x, k, level=L) = [cA_L, cD_L, cD_(L-1), ..., cD_1]
Wavedec(x, L) ==
    <<Band("cA", L, Len(x))>> \o [j \in 1..L |-> Band("cD", L - j + 1, Len(x))]

\* wavelet[0:self.L-self.D]
DwtKeep(t, bands) == PySlice(bands, 0, t.L - t.D)

DwtReturn(t, wavelet) == Ok(IF t.concat THEN Concat(wavelet) ELSE wavelet)

\* the deepest level pywt decomposes len points to with the haar filter:
\* floor(log2(len))
RECURSIVE DwtMaxLevel(_)
DwtMaxLevel(len) == IF len < 2 THEN 0 ELSE 1 + DwtMaxLevel(PyIntDiv(len, 2))

\* pywt.wavedec refuses an empty sample and a level deeper than the sample allows
DiscreteWaveletExtractor(t, x) ==
    IF Len(x) = 0 \/ t.L > DwtMaxLevel(Len(x)) THEN Raise("ValueError")
    ELSE DwtReturn(t, DwtKeep(t, Wavedec(x, t.L)))

\* ---- ElectrodeAvgTransform / ElectrodeDiffTransform ----

\* xx[1] of a row with fewer than 2 channels raises IndexError
ShortRow(x) == \E j \in 1..Len(x) : Len(x[j]) < 2

\* [(xx[0] + xx[1]) / 2.0 for xx in x]
ElectrodeAvgExtractor(k, x) ==
    IF ShortRow(x) THEN Raise("IndexError")
    ELSE Ok([j \in 1..Len(x) |-> Div(k, Add(x[j][1], x[j][2]), F(2))])

\* [xx[0] - xx[1] for xx in x]
ElectrodeDiffExtractor(x) ==
    IF ShortRow(x) THEN Raise("IndexError")
    ELSE Ok([j \in 1..Len(x) |-> Sub(x[j][1], x[j][2])])

\* ---- PostStimulusTransform / PreStimulusTransform ----

\* x[self.offset-datapoint.window_offset:]
PostStimulusExtractor(t, w, x) == Ok(PySliceFrom(x, t.offset - w))

\* x[0:-datapoint.window_offset]
PreStimulusExtractor(w, x) == Ok(PySlice(x, 0, -w))

\* ---- plant.py: stimulus types and format_raw ----
\* A string is the sequence of its characters.

\* the stim_types dict, in the order the source writes it
StimTypesSource ==
    <<[type |-> <<"w", "a", "t", "e", "r">>,
       aliases |-> <<<<"a", "c", "q", "u", "a", " ", "p", "i", "a", "n", "t", "e">>>>],
      [type |-> <<"H", "2", "S", "O">>,
       aliases |-> <<<<"h", "2", "s", "o">>>>],
      [type |-> <<"o", "z", "o", "n", "e">>,
       aliases |-> <<<<"o", "z", "o", "n", "e">>,
                     <<"o", "z", "o", "n", "o">>,
                     <<"o", "3">>>>],
      [type |-> <<"N", "a", "C", "L">>,
       aliases |-> <<<<"n", "a", "c", "l">>>>],
      [type |-> <<"l", "i", "g", "h", "t", "-", "o", "n">>,
       aliases |-> <<<<"l", "i", "g", "h", "t", "-", "o", "n">>>>],
      [type |-> <<"l", "i", "g", "h", "t", "-", "o", "f", "f">>,
       aliases |-> <<<<"l", "i", "g", "h", "t", "-", "o", "f", "f">>>>]>>

\* the order CPython 2.7 walks that dict in without hash randomization (its
\* string hash, a table of 32 slots)
StimTypesCPython == [j \in 1..6 |-> StimTypesSource[<<3, 6, 2, 4, 1, 5>>[j]]]

\* the orders iteritems() can take: the order follows the string hash, which
\* python -R / PYTHONHASHSEED randomizes, so every order of the six entries
StimOrders ==
    {[j \in 1..6 |-> StimTypesSource[p[j]]] :
        p \in {q \in [1..6 -> 1..6] : \A a, b \in 1..6 : a # b => q[a] # q[b]}}

\* None where a type name is expected
NoType == <<>>

Digits == {"0", "1", "2", "3", "4", "5", "6", "7", "8", "9"}

UpperCase == <<"A", "B", "C", "D", "E", "F", "G", "H", "I", "J", "K", "L", "M", "N", "O", "P", "Q", "R", "S", "T", "U", "V", "W", "X", "Y", "Z">>

LowerCase == <<"a", "b", "c", "d", "e", "f", "g", "h", "i", "j", "k", "l", "m", "n", "o", "p", "q", "r", "s", "t", "u", "v", "w", "x", "y", "z">>

\* one character of str.lower()
LowerChar(c) ==
    IF \E j \in 1..26 : UpperCase[j] = c
    THEN LowerCase[CHOOSE j \in 1..26 : UpperCase[j] = c]
    ELSE c

\* name.lower()
Lower(name) == [j \in 1..Len(name) |-> LowerChar(name[j])]

\* how many digits name ends with
RECURSIVE TrailingDigits(_)
TrailingDigits(name) ==
    IF name # <<>> /\ name[Len(name)] \in Digits
    THEN 1 + TrailingDigits(SubSeq(name, 1, Len(name) - 1))
    ELSE 0

\* re.sub(r'_?\d+$', '', name): the trailing digits go, and one "_" before
\* them; "$" is the end of the name or the place before a newline that ends
\* it, and that newline stays
StripTrailingNumber(name) ==
    LET nl == IF name # <<>> /\ name[Len(name)] = "\n" THEN 1 ELSE 0
        body == SubSeq(name, 1, Len(name) - nl)
        digits == TrailingDigits(body)
        keep == Len(body) - digits
    IN  IF digits = 0 THEN name
        ELSE (IF keep > 0 /\ body[keep] = "_" THEN SubSeq(body, 1, keep - 1)
              ELSE SubSeq(body, 1, keep))
             \o SubSeq(name, Len(body) + 1, Len(name))

\* the normalized name: trailing number removed, lower-cased
Normalize(name) == Lower(StripTrailingNumber(name))

\* alias in name
IsSubstr(alias, name) ==
    \E j \in 0..(Len(name) - Len(alias)) : SubSeq(name, j + 1, j + Len(alias)) = alias

AnyAliasIn(aliases, name) == \E a \in 1..Len(aliases) : IsSubstr(aliases[a], name)

\* format_raw's search, from entry j on.  t arrives as the normalized name,
\* but "for t, aliases in stim_types.iteritems()" rebinds t to the entry's
\* key, and "alias in t" is asked of that key
RECURSIVE FormatRawScan(_, _, _)
FormatRawScan(types, t, j) ==
    IF j > Len(types) THEN NoType
    ELSE IF AnyAliasIn(types[j].aliases, types[j].type) THEN types[j].type
    ELSE FormatRawScan(types, types[j].type, j + 1)

\* type_ as format_raw finds it for the raw stimulus name
FormatRawType(types, name) == FormatRawScan(types, Normalize(name), 1)

\* the stimuli format_raw keeps, in order
RECURSIVE FormatRawStimuli(_, _)
FormatRawStimuli(types, raw) ==
    IF raw = <<>> THEN <<>>
    ELSE (IF FormatRawType(types, Head(raw).type) = NoType THEN <<>>
          ELSE <<[type |-> FormatRawType(types, Head(raw).type), time |-> Head(raw).time]>>)
         \o FormatRawStimuli(types, Tail(raw))

\* readings.T[0::2] zipped with readings.T[1::2]: how many column pairs
PlantCount(data) == IF data = <<>> THEN 0 ELSE PyIntDiv(Len(data[1]), 2)

\* numpy.array([r1, r2]).T for the i-th pair of columns, i from 0
PlantReadings(data, i) == [r \in 1..Len(data) |-> <<data[r][2 * i + 1], data[r][2 * i + 2]>>]

\* format_raw: one PlantData per pair of columns, all with the same stimuli
FormatRaw(types, data, raw) ==
    [p \in 1..PlantCount(data) |->
        [name |-> p - 1, readings |-> PlantReadings(data, p - 1),
         stimuli |-> FormatRawStimuli(types, raw)]]

\* ---- process.py: load_mat's search for the type of a stimulus name ----
RECURSIVE LoadMatScan(_, _, _)
LoadMatScan(types, name, j) ==
    IF j > Len(types) THEN NoType
    ELSE IF AnyAliasIn(types[j].aliases, name) THEN types[j].type
    ELSE LoadMatScan(types, name, j + 1)

LoadMatType(types, name) == LoadMatScan(types, Normalize(name), 1)

\* ---- process.py: save_datapoints / load_datapoints ----
\* The file is the sequence of its rows, a row the sequence of its fields,
\* a field a string.

\* the field csv.writer writes for a float: its repr
FloatRepr(v) == <<"0.0", "1.0", "2.0", "3.0", "4.0", "5.0", "6.0", "7.0", "8.0", "9.0">>[v.n + 1]

\* float(field)
ParseFloat(field) == F(CHOOSE m \in 0..9 : FloatRepr(F(m)) = field)

\* data.T.flatten().tolist(): the transposed array row by row, that is the
\* data column by column
TransposeFlatten(data) ==
    IF data = <<>> THEN <<>>
    ELSE Concat([c \in 1..Len(data[1]) |-> [r \in 1..Len(data) |-> data[r][c]]])

\* the row written for one datapoint: [stim_type] + data.T.flatten().tolist()
SaveRow(dp) ==
    <<dp.type>> \o [j \in 1..Len(TransposeFlatten(dp.data)) |->
                      FloatRepr(TransposeFlatten(dp.data)[j])]

\* save_datapoints: one row per datapoint
SaveDatapoints(dps) == [j \in 1..Len(dps) |-> SaveRow(dps[j])]

\* numpy.reshape(data, (-1, 2)): consecutive pairs become the rows
Reshape2(flat) == [r \in 1..PyIntDiv(Len(flat), 2) |-> <<flat[2 * r - 1], flat[2 * r]>>]

\* map(float, row[1:])
LoadFloats(row) == [j \in 1..(Len(row) - 1) |-> ParseFloat(row[j + 1])]

\* load_datapoints: an odd count of values cannot be reshaped
LoadDatapoints(rows) ==
    IF \E j \in 1..Len(rows) : (Len(rows[j]) - 1) % 2 # 0 THEN Raise("ValueError")
    ELSE Ok([j \in 1..Len(rows) |->
                [type |-> rows[j][1], data |-> Reshape2(LoadFloats(rows[j]))]])

\* ---- the transform abstraction (Extractor / FeatureExtractor) ----

\* self.extractor(x) by class: the result and the sample as the call leaves it
Extractor(t, k, x) ==
    CASE t.cls = "WindowTransform" -> WindowExtractor(t, k, x)
      [] t.cls = "FeatureEnsembleTransform" ->
            [res |-> FeatureEnsembleExtractor(k, x), x |-> x]
      [] t.cls = "MeanSubtractTransform" ->
            [res |-> MeanSubtractExtractor(k, x), x |-> x]
      [] t.cls = "MovingAvgTransform" ->
            [res |-> OfSeq(MovingAvgExtractor(k, x, t.n)), x |-> x]
      [] t.cls = "NoiseTransform" ->
            [res |-> OfSeq(NoiseExtractor(k, x, t.n)), x |-> x]
      [] t.cls = "SplitTransform" -> [res |-> SplitExtractor(t, x), x |-> x]
      [] t.cls = "MapTransform" -> [res |-> MapExtractor(t, k, x), x |-> x]
      [] t.cls = "DiscreteWaveletTransform" ->
            [res |-> DiscreteWaveletExtractor(t, x), x |-> x]
      [] t.cls = "ElectrodeAvgTransform" ->
            [res |-> ElectrodeAvgExtractor(k, x), x |-> x]
      [] t.cls = "ElectrodeDiffTransform" ->
            [res |-> ElectrodeDiffExtractor(x), x |-> x]
      [] t.cls = "PostStimulusTransform" ->
            [res |-> PostStimulusExtractor(t, window_offset, x), x |-> x]
      [] t.cls = "PreStimulusTransform" ->
            [res |-> PreStimulusExtractor(window_offset, x), x |-> x]

\* numpy.array(rows, ndmin=2): k rows of one length give k rows; no rows give
\* the 1 x 0 array; rows of unequal length give one row of k objects
Ndmin2(rows) ==
    IF Len(rows) = 0 THEN << <<>> >>
    ELSE IF SameLen(rows) THEN rows
    ELSE <<rows>>

\* [self.extractor(x) for x in B], sample by sample; an exception ends it
RECURSIVE TransformLoop(_, _, _, _, _)

\* after self.extractor(B[j]) ended as e
TransformNext(t, k, B, j, rows, e) ==
    IF e.res.err # "" THEN [res |-> e.res, X |-> [B EXCEPT ![j] = e.x]]
    ELSE TransformLoop(t, k, [B EXCEPT ![j] = e.x], j + 1, Append(rows, e.res.val))

TransformLoop(t, k, B, j, rows) ==
    IF j > Len(B) THEN [res |-> Ok(Ndmin2(rows)), X |-> B]
    ELSE TransformNext(t, k, B, j, rows, Extractor(t, k, B[j]))

\* Extractor.transform(B): the result and the batch as the call leaves it
Transform(t, k, B) == TransformLoop(t, k, B, 1, <<>>)

\* ---- initial states ----
NoTransform == [cls |-> "None"]

IdleFrame ==
    [pc |-> "idle", x |-> <<>>, n |-> 0, i |-> 0, accum |-> F(0), mov_avg |-> <<>>]

\* all samples of exactly len points 0.0 .. maxval
SamplesOfLen(len, maxval) == [1..len -> {F(v) : v \in 0..maxval}]

Samples(maxlen, maxval) == UNION {SamplesOfLen(len, maxval) : len \in 0..maxlen}

\* batches of samples of one shape
Batches ==
    UNION {[1..cnt -> SamplesOfLen(len, MaxValT)] :
              <<cnt, len>> \in {p \in (0..MaxBatch) \X (0..MaxLenT) : p[1] * p[2] <= MaxPoints}}

\* nothing of the loading stage is in play
NoLoader ==
    /\ stim_types = <<>>
    /\ raw_stimuli = <<>>
    /\ raw_data = <<>>
    /\ datapoints = <<>>
    /\ csvfile = <<>>

InitOffset(batches, offsets) ==
    /\ X \in batches
    /\ window_offset \in offsets
    /\ NoLoader
    /\ xtype \in Kinds
    /\ tf = NoTransform
    /\ op = "init"
    /\ arg = 0
    /\ out = Ok(<<>>)
    /\ frame = IdleFrame
    /\ calls = 0

InitWith(batches) == InitOffset(batches, {0})

\* ---- constructors: a run follows one transform object from its construction ----
Constructed ==
    /\ tf = NoTransform
    /\ frame.pc = "idle"
    /\ op' = "construct"
    /\ arg' = 0
    /\ out' = Ok(tf')
    /\ UNCHANGED <<X, xtype, frame, calls, loader>>

OptInt == {NoneVal} \cup 1..MaxSteps

ConstructWindow ==
    \E f \in Funcs, N \in 1..MaxWin, hanning \in BOOLEAN :
        /\ tf' = [cls |-> "WindowTransform", f |-> f, N |-> N, hanning |-> hanning]
        /\ Constructed

ConstructSplit ==
    \E steps \in OptInt, divs \in OptInt :
        /\ tf' = [cls |-> "SplitTransform", steps |-> steps, divs |-> divs]
        /\ Constructed

ConstructMap ==
    \E f \in Funcs, steps \in OptInt, divs \in OptInt :
        /\ tf' = [cls |-> "MapTransform", f |-> f, steps |-> steps, divs |-> divs]
        /\ Constructed

ConstructDiscreteWavelet ==
    \E L \in 1..MaxLevel, concat \in BOOLEAN :
        \E D \in 0..(L - 1) :
            /\ tf' = [cls |-> "DiscreteWaveletTransform", kind |-> "haar",
                      L |-> L, D |-> D, concat |-> concat]
            /\ Constructed

ConstructFeatureEnsemble ==
    /\ tf' = [cls |-> "FeatureEnsembleTransform"]
    /\ Constructed

ConstructMeanSubtract ==
    /\ tf' = [cls |-> "MeanSubtractTransform"]
    /\ Constructed

ConstructMovingAvg ==
    \E n \in 1..MaxN :
        /\ tf' = [cls |-> "MovingAvgTransform", n |-> n]
        /\ Constructed

ConstructNoise ==
    \E n \in 1..MaxN :
        /\ tf' = [cls |-> "NoiseTransform", n |-> n,
                  mov_avg |-> [cls |-> "MovingAvgTransform", n |-> n]]
        /\ Constructed

ConstructElectrodeAvg ==
    /\ tf' = [cls |-> "ElectrodeAvgTransform"]
    /\ Constructed

ConstructElectrodeDiff ==
    /\ tf' = [cls |-> "ElectrodeDiffTransform"]
    /\ Constructed

ConstructPostStimulus ==
    \E offset \in 0..MaxOffset :
        /\ tf' = [cls |-> "PostStimulusTransform", offset |-> offset]
        /\ Constructed

ConstructPreStimulus ==
    /\ tf' = [cls |-> "PreStimulusTransform"]
    /\ Constructed

\* ---- the transform interface ----
CallTransform ==
    /\ tf.cls # "None"
    /\ frame.pc = "idle"
    /\ calls < MaxCalls
    /\ \E r \in {Transform(tf, xtype, X)} :
           /\ out' = r.res
           /\ X' = r.X
    /\ op' = "transform"
    /\ arg' = 0
    /\ calls' = calls + 1
    /\ UNCHANGED <<xtype, tf, frame, loader>>

CallFit ==
    /\ tf.cls # "None"
    /\ frame.pc = "idle"
    /\ op' = "fit"
    /\ arg' = 0
    /\ out' = Ok(tf)
    /\ UNCHANGED <<X, xtype, tf, frame, calls, loader>>

\* tf.extractor(X[j]) called directly
CallExtractor ==
    /\ tf.cls # "None"
    /\ frame.pc = "idle"
    /\ \E j \in 1..Len(X) :
        \E e \in {Extractor(tf, xtype, X[j])} :
            /\ out' = e.res
            /\ X' = [X EXCEPT ![j] = e.x]
            /\ arg' = j
    /\ op' = "extractor"
    /\ UNCHANGED <<xtype, tf, frame, calls, loader>>

\* ---- the statistics kernel: one call, on the sample X[1] ----
Returned(name, n) ==
    /\ op' = name
    /\ arg' = n
    /\ UNCHANGED <<X, xtype, tf, frame, calls, loader>>

CallMean ==
    /\ Len(X) = 1
    /\ op = "init"
    /\ out' = OfNum(mean(xtype, X[1]))
    /\ Returned("mean", 0)

CallMoment ==
    \E n \in 2..4 :
        /\ Len(X) = 1
        /\ op = "init"
        /\ out' = OfNum(moment(xtype, X[1], n))
        /\ Returned("moment", n)

CallVar ==
    /\ Len(X) = 1
    /\ op = "init"
    /\ out' = OfNum(var(xtype, X[1]))
    /\ Returned("var", 0)

CallStdev ==
    /\ Len(X) = 1
    /\ op = "init"
    /\ out' = OfNum(stdev(xtype, X[1]))
    /\ Returned("stdev", 0)

CallSkewness ==
    /\ Len(X) = 1
    /\ op = "init"
    /\ out' = OfNum(skewness(xtype, X[1]))
    /\ Returned("skewness", 0)

CallKurtosis ==
    /\ Len(X) = 1
    /\ op = "init"
    /\ out' = OfNum(kurtosis(xtype, X[1]))
    /\ Returned("kurtosis", 0)

CallDifferential ==
    /\ Len(X) = 1
    /\ op = "init"
    /\ out' = Ok(differential(X[1]))
    /\ Returned("differential", 0)

\* ---- MovingAvgTransform.extractor(X[1]), iteration by iteration ----
MovAvgCall ==
    /\ tf.cls = "MovingAvgTransform"
    /\ Len(X) = 1
    /\ frame.pc = "idle"
    /\ frame' = MovAvgBegin(X[1], tf.n)
    /\ op' = "call"
    /\ arg' = 0
    /\ UNCHANGED <<X, xtype, tf, out, calls, loader>>

MovAvgIterate ==
    /\ frame.pc = "loop"
    /\ frame' = MovAvgStep(xtype, frame)
    /\ op' = IF frame.i < Len(frame.x) THEN "emit" ELSE "exit"
    /\ UNCHANGED <<X, xtype, tf, arg, out, calls, loader>>

MovAvgReturn ==
    /\ frame.pc = "done"
    /\ out' = OfSeq(frame.mov_avg)
    /\ frame' = IdleFrame
    /\ op' = "extractor"
    /\ arg' = 1
    /\ UNCHANGED <<X, xtype, tf, calls, loader>>

\* ---- specifications ----

\* the transform interface over batches
Init == InitWith(Batches)

Next ==
    \/ ConstructWindow
    \/ ConstructSplit
    \/ ConstructMap
    \/ ConstructDiscreteWavelet
    \/ ConstructFeatureEnsemble
    \/ ConstructMeanSubtract
    \/ ConstructMovingAvg
    \/ ConstructNoise
    \/ CallTransform
    \/ CallFit

Spec == Init /\ [][Next]_vars

\* the statistics kernel and the feature ensemble over one sample
InitStats == InitWith({<<x>> : x \in Samples(MaxLen, MaxVal)})

NextStats ==
    \/ CallMean
    \/ CallMoment
    \/ CallVar
    \/ CallStdev
    \/ CallSkewness
    \/ CallKurtosis
    \/ CallDifferential
    \/ ConstructFeatureEnsemble
    \/ CallExtractor

SpecStats == InitStats /\ [][NextStats]_vars

\* moving average and noise over one sample
NextMovingAvg ==
    \/ ConstructMovingAvg
    \/ ConstructNoise
    \/ MovAvgCall
    \/ MovAvgIterate
    \/ MovAvgReturn
    \/ CallExtractor

InitMovingAvg == InitWith({<<x>> : x \in Samples(MaxLenM, MaxValM)})

SpecMovingAvg == InitMovingAvg /\ [][NextMovingAvg]_vars

\* the electrode transforms over one sample of rows of channels; the rows of
\* a numpy sample have one length, those of a list of lists any
ElectrodeSamples == UNION {[1..rows -> Samples(MaxChannels, MaxValE)] : rows \in 0..MaxRows}

InitElectrode ==
    /\ InitWith({<<x>> : x \in ElectrodeSamples})
    /\ (xtype = "ndarray") => SameLen(X[1])

NextElectrode ==
    \/ ConstructElectrodeAvg
    \/ ConstructElectrodeDiff
    \/ CallExtractor

SpecElectrode == InitElectrode /\ [][NextElectrode]_vars

\* the stimulus transforms over one sample, under each window offset
InitStimulus == InitOffset({<<x>> : x \in Samples(MaxLenS, MaxValS)}, 1..MaxOffset)

NextStimulus ==
    \/ ConstructPostStimulus
    \/ ConstructPreStimulus
    \/ CallExtractor

SpecStimulus == InitStimulus /\ [][NextStimulus]_vars

\* format_raw over the raw stimuli and readings of one recording
RawNames ==
    {<<"O", "z", "o", "n", "e", "_", "1">>,
     <<"H", "2", "S", "O", "4">>,
     <<"N", "a", "C", "l">>,
     <<"l", "i", "g", "h", "t", "-", "o", "n">>,
     <<"o", "3">>,
     <<"t", "o", "u", "c", "h">>}

RawStimuli ==
    UNION {[1..cnt -> [type : RawNames, time : 0..MaxTime]] : cnt \in 0..MaxStim}

\* one row of readings; column c reads c
RawReadings == {<<[c \in 1..cols |-> F(c)]>> : cols \in 0..MaxColumns}

CallFormatRaw ==
    /\ op = "init"
    /\ op' = "format_raw"
    /\ arg' = 0
    /\ out' = Ok(FormatRaw(stim_types, raw_data, raw_stimuli))
    /\ UNCHANGED <<X, xtype, tf, frame, calls, loader>>

InitFormat ==
    /\ X = <<>>
    /\ xtype = "ndarray"
    /\ tf = NoTransform
    /\ op = "init"
    /\ arg = 0
    /\ out = Ok(<<>>)
    /\ frame = IdleFrame
    /\ calls = 0
    /\ window_offset = 0
    /\ stim_types \in StimOrders
    /\ raw_stimuli \in RawStimuli
    /\ raw_data \in RawReadings
    /\ datapoints = <<>>
    /\ csvfile = <<>>

NextFormat == CallFormatRaw

SpecFormat == InitFormat /\ [][NextFormat]_vars

\* saving and loading datapoints: windows of readings of 2 channels
CallSaveDatapoints ==
    /\ op = "init"
    /\ csvfile' = SaveDatapoints(datapoints)
    /\ op' = "save_datapoints"
    /\ arg' = 0
    /\ out' = Ok(<<>>)
    /\ UNCHANGED <<X, xtype, tf, frame, calls, window_offset, stim_types,
                   raw_stimuli, raw_data, datapoints>>

CallLoadDatapoints ==
    /\ op = "save_datapoints"
    /\ op' = "load_datapoints"
    /\ arg' = 0
    /\ out' = LoadDatapoints(csvfile)
    /\ UNCHANGED <<X, xtype, tf, frame, calls, loader>>

InitDatapoints ==
    /\ X = <<>>
    /\ xtype = "ndarray"
    /\ tf = NoTransform
    /\ op = "init"
    /\ arg = 0
    /\ out = Ok(<<>>)
    /\ frame = IdleFrame
    /\ calls = 0
    /\ window_offset = 0
    /\ stim_types = <<>>
    /\ raw_stimuli = <<>>
    /\ raw_data = <<>>
    /\ datapoints \in UNION {[1..cnt ->
            [type : {"ozone", "water"},
             data : UNION {[1..rows -> SamplesOfLen(2, MaxValE)] : rows \in 1..MaxRows}]] :
                cnt \in 0..MaxDatapoints}
    /\ csvfile = <<>>

NextDatapoints ==
    \/ CallSaveDatapoints
    \/ CallLoadDatapoints

SpecDatapoints == InitDatapoints /\ [][NextDatapoints]_vars

\* ---- claims ----

\* C1: transform(X) returns exactly one output per sample of X, in X's
\* order, output i being the extractor's result on sample i alone; fit(X, y)
\* returns the transform itself and leaves its configuration as it was.
C1_OneOutputPerSample ==
    [][/\ (op' = "transform" /\ out'.err = "") =>
            /\ Len(out'.val) = Len(X)
            /\ \A i \in 1..Len(X) : out'.val[i] = Extractor(tf, xtype, X[i]).res.val
       /\ (op' = "fit") => (out' = Ok(tf) /\ tf' = tf)]_vars

\* C2: transform(X) leaves every sample of X as it was, so that applying the
\* transform again to the batch gives the result again.
C2_InputUnchanged ==
    [][(op' = "transform") =>
          (X' = X /\ Transform(tf, xtype, X').res = out')]_vars

\* the N windows the claim names: size floor(2 len / (N+1)), starts 0, s, 2s, ...
ClaimedWindows(x, N) ==
    LET size == (2 * Len(x)) \div (N + 1)
        s == size \div 2
    IN  [j \in 1..N |-> SubSeq(x, (j - 1) * s + 1, (j - 1) * s + size)]

\* f over the claimed windows, concatenated
ClaimedWindowResult(t, k, x) == MapRavel(MapF(t.f, k, ClaimedWindows(x, t.N)))

\* C3: WindowTransform (no taper) applies f to exactly N windows of
\* floor(2 len / (N+1)) points at the starts 0, s, 2s, ..., s = floor(size/2),
\* and concatenates the N results in order; stated for the samples whose
\* stride s is at least 1.
C3_ExactlyNWindows ==
    (op = "transform" /\ tf.cls = "WindowTransform" /\ ~tf.hanning
        /\ \A i \in 1..Len(X) :
              /\ (2 * Len(X[i])) \div (tf.N + 1) >= 2
              /\ ClaimedWindowResult(tf, xtype, X[i]).err = "")
    => /\ out.err = ""
       /\ \A i \in 1..Len(X) : out.val[i] = ClaimedWindowResult(tf, xtype, X[i]).val

\* the n points x[i..i+n-1], 0-based i
FullWindow(x, i, n) == SubSeq(x, i + 1, i + n)

\* C4: MovingAvgTransform emits only averages of full windows: whenever an
\* average is about to be emitted at position i, the accumulator is the sum
\* of the n points x[i..i+n-1]; the returned list has max(0, len - n + 1)
\* elements, element i being (x[i] + ... + x[i+n-1]) / n.
C4_FullWindowAverages ==
    /\ (frame.pc = "loop" /\ frame.i < Len(frame.x)) =>
          /\ frame.i + frame.n <= Len(frame.x)
          /\ frame.accum = Sum(FullWindow(frame.x, frame.i, frame.n))
    /\ (op = "extractor" /\ tf.cls = "MovingAvgTransform") =>
          /\ out.err = ""
          /\ Len(out.val) = Max(0, Len(X[1]) - tf.n + 1)
          /\ \A j \in 1..Len(out.val) :
                out.val[j] = Div(xtype, Sum(FullWindow(X[1], j - 1, tf.n)), F(tf.n))

\* C5: for 1 <= n <= len(x), NoiseTransform(n) returns len(x) - n values, and
\* noise plus moving average gives back the input on the aligned region:
\* Noise(x)[i] + MovingAvg(x)[i] = x[floor(n/2) + i].
C5_NoisePlusAverage ==
    (op = "extractor" /\ tf.cls = "NoiseTransform" /\ tf.n <= Len(X[1])) =>
        /\ out.err = ""
        /\ Len(out.val) = Len(X[1]) - tf.n
        /\ \A j \in 1..Len(out.val) :
              Add(out.val[j], MovingAvgExtractor(xtype, X[1], tf.n)[j])
                 = X[1][(tf.n \div 2) + j]

\* a noise transform with an odd and an even window returned two values or more
C5_Witness ==
    /\ op = "extractor"
    /\ tf.cls = "NoiseTransform"
    /\ tf.n \in {2, 3}
    /\ out.err = ""
    /\ Len(out.val) >= 1
    /\ \E j \in 1..Len(out.val) : ~IsZero(out.val[j])

\* the bands the claim keeps: all L + 1 of the decomposition but the D finest
ClaimedBands(t, x) == SubSeq(Wavedec(x, t.L), 1, t.L + 1 - t.D)

\* C6: for 0 <= D < L DiscreteWaveletTransform returns the bands of the
\* level-L decomposition (cA_L, cD_L, ..., cD_1) with exactly the D finest
\* detail bands removed; with D = 0 it removes none.
C6_DropsDFinestBands ==
    (op = "transform" /\ tf.cls = "DiscreteWaveletTransform" /\ out.err = "") =>
        \A i \in 1..Len(X) :
            out.val[i] = IF tf.concat THEN Concat(ClaimedBands(tf, X[i]))
                         ELSE ClaimedBands(tf, X[i])

\* C7: no SplitTransform or MapTransform exists with both or neither of
\* steps and divs given: such a construction fails.
C7_RejectedAtConstruction ==
    (tf.cls \in {"SplitTransform", "MapTransform"}) =>
        ((tf.steps = NoneVal) # (tf.divs = NoneVal))

IsConstant(x) == \A j \in 1..Len(x) : x[j] = x[1]

\* C8: FeatureEnsembleTransform returns exactly 10 values for a sample of at
\* least 3 points whose variance is not zero, and fails with an error for a
\* sample of fewer than 3 points or of zero variance.
C8_TenFeaturesOrError ==
    (op = "extractor" /\ tf.cls = "FeatureEnsembleTransform") =>
        IF Len(X[1]) >= 3 /\ ~IsConstant(X[1])
        THEN out.err = "" /\ Len(out.val) = 10
        ELSE out.err # ""

Scaled(x, c) == [j \in 1..Len(x) |-> Mul(F(c), x[j])]

\* C9: for a non-constant x, skewness(x) is the third central moment over
\* the variance to the power 3/2 (its square times var^3 is the moment's
\* square, its sign the moment's) and is unchanged when x is scaled by a
\* positive constant; kurtosis(x) is the fourth central moment over the
\* squared variance, minus 3.
C9_SkewnessKurtosis ==
    (Len(X) = 1 /\ Len(X[1]) > 0 /\ ~IsConstant(X[1])) =>
        /\ (op = "skewness") =>
              /\ out.err = ""
              /\ Mul(Pow(out.val, 2), Pow(var(xtype, X[1]), 3))
                    = Pow(moment(xtype, X[1], 3), 2)
              /\ Sign(out.val.n) = Sign(moment(xtype, X[1], 3).n)
              /\ skewness(xtype, Scaled(X[1], 2)) = out.val
        /\ (op = "kurtosis") =>
              /\ out.err = ""
              /\ out.val = Sub(Div(xtype, moment(xtype, X[1], 4),
                                   Pow(var(xtype, X[1]), 2)), F(3))

\* C10: for a non-empty constant x, var(x) = moment(x, 2) = 0 and skewness
\* and kurtosis end in ZeroDivisionError; for the empty x, mean, moment and
\* var end in ZeroDivisionError.
C10_DegenerateInputsRaise ==
    /\ (Len(X) = 1 /\ Len(X[1]) > 0 /\ IsConstant(X[1])) =>
          /\ (op = "var" \/ (op = "moment" /\ arg = 2)) => out = Ok(F(0))
          /\ (op \in {"skewness", "kurtosis"}) => out = Raise("ZeroDivisionError")
    /\ (Len(X) = 1 /\ Len(X[1]) = 0) =>
          ((op \in {"mean", "moment", "var"}) => out = Raise("ZeroDivisionError"))

\* C11: the electrode transforms need exactly 2 channels: on a sample with
\* a row of fewer or more than 2 channels they fail with an error; on a
\* sample of T rows of 2 channels they return T values, (a + b) / 2 per row
\* for the average and a - b per row for the difference.
C11_ExactlyTwoChannels ==
    (op = "extractor" /\ tf.cls \in {"ElectrodeAvgTransform", "ElectrodeDiffTransform"}) =>
        IF \E j \in 1..Len(X[1]) : Len(X[1][j]) # 2
        THEN out.err # ""
        ELSE /\ out.err = ""
             /\ Len(out.val) = Len(X[1])
             /\ \A j \in 1..Len(X[1]) :
                   out.val[j] = IF tf.cls = "ElectrodeAvgTransform"
                                THEN Div(xtype, Add(X[1][j][1], X[1][j][2]), F(2))
                                ELSE Sub(X[1][j][1], X[1][j][2])

\* the last cnt points of x
Trailing(x, cnt) == SubSeq(x, Len(x) - cnt + 1, Len(x))

\* C12: with window offset w, 0 < w <= len, and offset o, 0 <= o <= w,
\* PostStimulusTransform(o) returns exactly the last w - o points of the
\* sample (none at o = w); PreStimulusTransform returns exactly the first
\* len - w points.
C12_StimulusSlices ==
    (op = "extractor" /\ window_offset > 0 /\ window_offset <= Len(X[1])) =>
        /\ (tf.cls = "PostStimulusTransform" /\ tf.offset <= window_offset) =>
              out = Ok(Trailing(X[1], window_offset - tf.offset))
        /\ (tf.cls = "PreStimulusTransform") =>
              out = Ok(SubSeq(X[1], 1, Len(X[1]) - window_offset))

\* the stimuli the claim keeps: those whose normalized name holds an alias
\* of some type, each with that type
RECURSIVE ClaimedStimuli(_, _)
ClaimedStimuli(types, raw) ==
    IF raw = <<>> THEN <<>>
    ELSE (IF LoadMatType(types, Head(raw).type) = NoType THEN <<>>
          ELSE <<[type |-> LoadMatType(types, Head(raw).type), time |-> Head(raw).time]>>)
         \o ClaimedStimuli(types, Tail(raw))

\* C13: format_raw gives each raw stimulus the type one of whose aliases is
\* a substring of the stimulus's normalized name, and drops the stimuli whose
\* name holds no alias: every plant it returns carries exactly those stimuli,
\* typed as load_mat of process.py types the same names.
C13_TypeFromOwnName ==
    (op = "format_raw") =>
        \A p \in 1..Len(out.val) :
            out.val[p].stimuli = ClaimedStimuli(stim_types, raw_stimuli)

\* C14: saving then loading is a round trip: load_datapoints of the file
\* save_datapoints wrote returns as many datapoints, in the same order, with
\* the same stimulus types, and for each an array of the same shape whose
\* value at row i, channel j is the value the saved array had there.
C14_SaveLoadRoundTrip ==
    (op = "load_datapoints") =>
        /\ out.err = ""
        /\ Len(out.val) = Len(datapoints)
        /\ \A j \in 1..Len(datapoints) :
              /\ out.val[j].type = datapoints[j].type
              /\ Len(out.val[j].data) = Len(datapoints[j].data)
              /\ \A r \in 1..Len(datapoints[j].data) :
                    out.val[j].data[r] = datapoints[j].data[r]

====
